---- MODULE Spec2Model ----
(***************************************************************************)
(* A model of DataString (src/lib.rs): a byte vector kept as an ASCII      *)
(* string in which every byte above 127 is replaced by the SUBSTITUTE      *)
(* control code, with a table of the replaced values and their positions,  *)
(* and a take/return protocol on the string.                               *)
(*                                                                         *)
(* Bytes are integers 0..255.  A Vec<u8> and a String are both sequences   *)
(* of bytes (a String is its UTF-8 encoding); Rust's 0-based index i is    *)
(* element i+1 of the TLA+ sequence, and the table stores the 0-based      *)
(* indices, as the code does.  Option<T> is a sequence of length 0 (None)  *)
(* or 1 (Some).                                                            *)
(***************************************************************************)
EXTENDS Integers, Sequences, FiniteSets, TLC

SUBSTITUTE == 26

ASCII_MAX == 127

\* The longest vector and the longest string handed to the value.
MaxLen == 2

\* The byte values the inputs are drawn from: the SUBSTITUTE code itself, the
\* largest ASCII value, the smallest value above it (a UTF-8 continuation
\* byte) and a UTF-8 lead byte (195, 128 is the encoding of U+00C0).
ByteValues == {SUBSTITUTE, ASCII_MAX, 128, 195}

ByteSeqs == UNION {[1..n -> ByteValues] : n \in 0..MaxLen}

None == <<>>

Some(x) == <<x>>

IsSome(o) == o # None

Unwrap(o) == o[1]

-----------------------------------------------------------------------------
(* String::from_utf8: the validation of the standard library.              *)

Between(b, lo, hi) == lo <= b /\ b <= hi

IsCont(data, i) == i <= Len(data) /\ Between(data[i], 128, 191)

\* The number of bytes of the well-formed sequence starting at element i,
\* or 0 when none starts there.
Utf8Width(data, i) ==
    LET b == data[i]
        second(lo, hi) == i + 1 <= Len(data) /\ Between(data[i + 1], lo, hi)
    IN  IF b <= ASCII_MAX THEN 1
        ELSE IF Between(b, 194, 223) THEN
            IF IsCont(data, i + 1) THEN 2 ELSE 0
        ELSE IF Between(b, 224, 239) THEN
            IF /\ \/ b = 224 /\ second(160, 191)
                  \/ Between(b, 225, 236) /\ second(128, 191)
                  \/ b = 237 /\ second(128, 159)
                  \/ Between(b, 238, 239) /\ second(128, 191)
               /\ IsCont(data, i + 2)
            THEN 3 ELSE 0
        ELSE IF Between(b, 240, 244) THEN
            IF /\ \/ b = 240 /\ second(144, 191)
                  \/ Between(b, 241, 243) /\ second(128, 191)
                  \/ b = 244 /\ second(128, 143)
               /\ IsCont(data, i + 2)
               /\ IsCont(data, i + 3)
            THEN 4 ELSE 0
        ELSE 0

RECURSIVE Utf8ValidFrom(_, _)
Utf8ValidFrom(data, i) ==
    IF i > Len(data) THEN TRUE
    ELSE LET w == Utf8Width(data, i)
         IN  w > 0 /\ Utf8ValidFrom(data, i + w)

from_utf8_is_ok(data) == Utf8ValidFrom(data, 1)

\* The values of type String the caller can hand in: safe Rust only builds
\* well-formed ones.
Strings == {s \in ByteSeqs : from_utf8_is_ok(s)}

-----------------------------------------------------------------------------
(* The replacement table: HashMap<u8, Vec<usize>>, a function from the     *)
(* keys present to their index vectors.                                    *)

EmptyMap == [k \in {} |-> <<>>]

\* A bug: insert(value, vec![index]), which drops the positions recorded
\* before for the same value.
EntryPush_insert(repl, value, index) ==
    [k \in DOMAIN repl \cup {value} |->
        IF k = value THEN <<index>> ELSE repl[k]]

\* replacements.entry(value).or_default().push(index)
EntryPush(repl, value, index) ==
    IF value \in DOMAIN repl
    THEN [repl EXCEPT ![value] = Append(@, index)]
    ELSE [k \in DOMAIN repl \cup {value} |->
            IF k = value THEN <<index>> ELSE repl[k]]

\* The orders in which the iteration of a HashMap can visit its keys.
KeyOrders(repl) ==
    {o \in [1..Cardinality(DOMAIN repl) -> DOMAIN repl] :
        \A i, j \in DOMAIN o : o[i] = o[j] => i = j}

\* A bug: the test is written *value >= ASCII_MAX, which also masks 127.
RECURSIVE FromVecLoop_ge(_, _, _)
FromVecLoop_ge(data, index, repl) ==
    IF index >= Len(data) THEN [data |-> data, replacements |-> repl]
    ELSE LET value == data[index + 1]
         IN  IF value >= ASCII_MAX
             THEN FromVecLoop_ge([data EXCEPT ![index + 1] = SUBSTITUTE],
                                 index + 1, EntryPush(repl, value, index))
             ELSE FromVecLoop_ge(data, index + 1, repl)

\* A bug: the position is recorded but *value = SUBSTITUTE is left out.
RECURSIVE FromVecLoop_no_store(_, _, _)
FromVecLoop_no_store(data, index, repl) ==
    IF index >= Len(data) THEN [data |-> data, replacements |-> repl]
    ELSE LET value == data[index + 1]
         IN  IF value > ASCII_MAX
             THEN FromVecLoop_no_store(data, index + 1,
                                       EntryPush(repl, value, index))
             ELSE FromVecLoop_no_store(data, index + 1, repl)

\* The first loop of from_vec, from 0-based position index on.
RECURSIVE FromVecLoop(_, _, _)
FromVecLoop(data, index, repl) ==
    IF index >= Len(data) THEN [data |-> data, replacements |-> repl]
    ELSE LET value == data[index + 1]
         IN  IF value > ASCII_MAX
             THEN FromVecLoop([data EXCEPT ![index + 1] = SUBSTITUTE],
                              index + 1, EntryPush(repl, value, index))
             ELSE FromVecLoop(data, index + 1, repl)

from_vec(data) ==
    LET r == FromVecLoop(data, 0, EmptyMap)
    IN  [string_rep |-> Some(r.data), replacements |-> r.replacements]

-----------------------------------------------------------------------------
(* The loops of take_data and return_data_unchecked.  An indexed store     *)
(* past the end of the vector panics: the result then has ok = FALSE.      *)

Ok(data) == [ok |-> TRUE, data |-> data]

IndexPanic == [ok |-> FALSE, data |-> <<>>]

\* A bug: a position is restored only if it still holds SUBSTITUTE.
RECURSIVE RestoreVec_if_substitute(_, _, _, _)
RestoreVec_if_substitute(data, index_vec, j, saved_data) ==
    IF j > Len(index_vec) THEN Ok(data)
    ELSE IF index_vec[j] >= Len(data) THEN IndexPanic
    ELSE RestoreVec_if_substitute(
             IF data[index_vec[j] + 1] = SUBSTITUTE
             THEN [data EXCEPT ![index_vec[j] + 1] = saved_data]
             ELSE data,
             index_vec, j + 1, saved_data)

\* for index in index_vec.iter() { data[*index] = *saved_data; }
RECURSIVE RestoreVec(_, _, _, _)
RestoreVec(data, index_vec, j, saved_data) ==
    IF j > Len(index_vec) THEN Ok(data)
    ELSE IF index_vec[j] >= Len(data) THEN IndexPanic
    ELSE RestoreVec([data EXCEPT ![index_vec[j] + 1] = saved_data],
                    index_vec, j + 1, saved_data)

\* A bug: the loop over the table ends after the first entry.
RestoreAll_first(data, repl, order, n) ==
    IF Len(order) = 0 THEN Ok(data)
    ELSE RestoreVec(data, repl[order[1]], 1, order[1])

\* for (saved_data, index_vec) in self.replacements.iter() { ... }
RECURSIVE RestoreAll(_, _, _, _)
RestoreAll(data, repl, order, n) ==
    IF n > Len(order) THEN Ok(data)
    ELSE LET r == RestoreVec(data, repl[order[n]], 1, order[n])
         IN  IF r.ok THEN RestoreAll(r.data, repl, order, n + 1)
             ELSE IndexPanic

\* A bug: the wrong constant is stored (ASCII_MAX for SUBSTITUTE).
RECURSIVE MaskVec_ascii_max(_, _, _)
MaskVec_ascii_max(data, index_vec, j) ==
    IF j > Len(index_vec) THEN Ok(data)
    ELSE IF index_vec[j] >= Len(data) THEN IndexPanic
    ELSE MaskVec_ascii_max([data EXCEPT ![index_vec[j] + 1] = ASCII_MAX],
                           index_vec, j + 1)

\* A bug: the store is written as a checked one that skips a position past
\* the end (if let Some(b) = data.get_mut(*index) { *b = SUBSTITUTE }).
RECURSIVE MaskVec_get_mut(_, _, _)
MaskVec_get_mut(data, index_vec, j) ==
    IF j > Len(index_vec) THEN Ok(data)
    ELSE IF index_vec[j] >= Len(data)
    THEN MaskVec_get_mut(data, index_vec, j + 1)
    ELSE MaskVec_get_mut([data EXCEPT ![index_vec[j] + 1] = SUBSTITUTE],
                         index_vec, j + 1)

\* for index in index_vec { data[*index] = SUBSTITUTE; }
RECURSIVE MaskVec(_, _, _)
MaskVec(data, index_vec, j) ==
    IF j > Len(index_vec) THEN Ok(data)
    ELSE IF index_vec[j] >= Len(data) THEN IndexPanic
    ELSE MaskVec([data EXCEPT ![index_vec[j] + 1] = SUBSTITUTE],
                 index_vec, j + 1)

\* A bug: the loop over the table ends after the first entry.
MaskAll_first(data, repl, order, n) ==
    IF Len(order) = 0 THEN Ok(data)
    ELSE MaskVec(data, repl[order[1]], 1)

\* for index_vec in self.replacements.values() { ... }
RECURSIVE MaskAll(_, _, _, _)
MaskAll(data, repl, order, n) ==
    IF n > Len(order) THEN Ok(data)
    ELSE LET r == MaskVec(data, repl[order[n]], 1)
         IN  IF r.ok THEN MaskAll(r.data, repl, order, n + 1)
             ELSE IndexPanic

-----------------------------------------------------------------------------
(* Display: the characters of the string, each written to the formatter    *)
(* as its UTF-8 encoding, the SUBSTITUTE character as U+FFFD.              *)

\* The code point of the well-formed sequence of w bytes at element i.
DecodeAt(data, i, w) ==
    IF w = 2 THEN (data[i] - 192) * 64 + (data[i + 1] - 128)
    ELSE IF w = 3 THEN (data[i] - 224) * 4096 + (data[i + 1] - 128) * 64
                       + (data[i + 2] - 128)
    ELSE IF w = 4 THEN (data[i] - 240) * 262144 + (data[i + 1] - 128) * 4096
                       + (data[i + 2] - 128) * 64 + (data[i + 3] - 128)
    ELSE data[i]

\* s.chars(): the code points of a string, from element i on.  A String is
\* well-formed, so a sequence starts at every element reached.
RECURSIVE Chars(_, _)
Chars(s, i) ==
    IF i > Len(s) THEN <<>>
    ELSE LET w == IF Utf8Width(s, i) = 0 THEN 1 ELSE Utf8Width(s, i)
         IN  <<DecodeAt(s, i, w)>> \o Chars(s, i + w)

\* write!(f, "{}", c): the UTF-8 encoding of a character.
EncodeChar(c) ==
    IF c < 128 THEN <<c>>
    ELSE IF c < 2048 THEN <<192 + (c \div 64), 128 + (c % 64)>>
    ELSE IF c < 65536
    THEN <<224 + (c \div 4096), 128 + ((c \div 64) % 64), 128 + (c % 64)>>
    ELSE <<240 + (c \div 262144), 128 + ((c \div 4096) % 64),
           128 + ((c \div 64) % 64), 128 + (c % 64)>>

\* The string literal of the second write!: U+FFFD in UTF-8.
ReplacementChar == <<239, 191, 189>>

\* A bug: the two branches are swapped (c == SUBSTITUTE as char).
WriteChar_swapped(c) ==
    IF c = SUBSTITUTE THEN EncodeChar(c) ELSE ReplacementChar

\* The body of the loop over the characters.
WriteChar(c) ==
    IF c # SUBSTITUTE THEN EncodeChar(c) ELSE ReplacementChar

RECURSIVE FmtLoop(_, _)
FmtLoop(chars, j) ==
    IF j > Len(chars) THEN <<>>
    ELSE WriteChar(chars[j]) \o FmtLoop(chars, j + 1)

\* What fmt writes to the formatter.
Rendered(rep) ==
    IF rep = None THEN <<>> ELSE FmtLoop(Chars(Unwrap(rep), 1), 1)

-----------------------------------------------------------------------------
(* The state.  string_rep and replacements are the fields of DataString;   *)
(* the others record the run: the vector the value was built from, the     *)
(* last call with its argument and result, whether that call panicked,     *)
(* the string_rep it found, and what the caller holds.                     *)

VARIABLES
    string_rep,     \* Option<String>
    replacements,   \* HashMap<u8, Vec<usize>>
    d,              \* the argument of from_vec
    op,             \* the last call
    arg,            \* its argument, an Option (None for a call without one)
    ret,            \* its result, an Option (None when it panicked)
    panicked,       \* "no", or the panic that ended the run
    pre,            \* string_rep when the last call began
    loan,           \* what the last successful take handed out, until a
                    \* return is accepted: <<>> or <<kind, value>>
    faithful,       \* every return made on an empty value so far gave back
                    \* exactly the loan, through the matching call
    bytes_out,      \* take_data handed out a vector and no
                    \* return_data_unchecked has been accepted since
    stored_by,      \* the call that stored the string held now or held last
    fresh           \* "new" after from_vec, "first" after the first call,
                    \* "later" after that

vars == <<string_rep, replacements, d, op, arg, ret, panicked, pre, loan,
          faithful, bytes_out, stored_by, fresh>>

NoLoan == <<>>

Age(f) == IF f = "new" THEN "first" ELSE "later"

Init ==
    /\ d \in ByteSeqs
    /\ string_rep = from_vec(d).string_rep
    /\ replacements = from_vec(d).replacements
    /\ op = "from_vec"
    /\ arg = Some(d)
    /\ ret = None
    /\ panicked = "no"
    /\ pre = None
    /\ loan = NoLoan
    /\ faithful = TRUE
    /\ bytes_out = FALSE
    /\ stored_by = "from_vec"
    /\ fresh = "new"

\* A bug: self.string_rep.clone(), which leaves the string in place.
take_string_clone ==
    /\ panicked = "no"
    /\ op' = "take_string"
    /\ arg' = None
    /\ pre' = string_rep
    /\ fresh' = Age(fresh)
    /\ ret' = string_rep
    /\ loan' = IF IsSome(string_rep) THEN <<"string", Unwrap(string_rep)>>
               ELSE loan
    /\ UNCHANGED <<string_rep, replacements, d, panicked, faithful, bytes_out,
                   stored_by>>

\* self.string_rep.take()
take_string ==
    /\ panicked = "no"
    /\ op' = "take_string"
    /\ arg' = None
    /\ pre' = string_rep
    /\ fresh' = Age(fresh)
    /\ ret' = string_rep
    /\ string_rep' = None
    /\ loan' = IF IsSome(string_rep) THEN <<"string", Unwrap(string_rep)>>
               ELSE loan
    /\ UNCHANGED <<replacements, d, panicked, faithful, bytes_out, stored_by>>

\* A bug: the string is stored without looking at string_rep.
return_string_overwrite(s) ==
    /\ panicked = "no"
    /\ op' = "return_string"
    /\ arg' = Some(s)
    /\ pre' = string_rep
    /\ fresh' = Age(fresh)
    /\ string_rep' = Some(s)
    /\ ret' = None
    /\ loan' = NoLoan
    /\ faithful' = (faithful /\ loan = <<"string", s>>)
    /\ stored_by' = "return_string"
    /\ UNCHANGED <<replacements, d, panicked, bytes_out>>

return_string(s) ==
    /\ panicked = "no"
    /\ op' = "return_string"
    /\ arg' = Some(s)
    /\ pre' = string_rep
    /\ fresh' = Age(fresh)
    /\ IF string_rep = None
       THEN /\ string_rep' = Some(s)
            /\ ret' = None
            /\ loan' = NoLoan
            /\ faithful' = (faithful /\ loan = <<"string", s>>)
            /\ stored_by' = "return_string"
       ELSE /\ ret' = Some(s)
            /\ UNCHANGED <<string_rep, loan, faithful, stored_by>>
    /\ UNCHANGED <<replacements, d, panicked, bytes_out>>

\* A bug: the table is emptied as it is replayed (replacements.drain()).
take_data_drain ==
    /\ panicked = "no"
    /\ op' = "take_data"
    /\ arg' = None
    /\ pre' = string_rep
    /\ fresh' = Age(fresh)
    /\ IF string_rep = None
       THEN /\ ret' = None
            /\ UNCHANGED <<string_rep, replacements, panicked, loan, bytes_out>>
       ELSE \E order \in KeyOrders(replacements) :
            LET r == RestoreAll(Unwrap(string_rep), replacements, order, 1)
            IN  /\ string_rep' = None
                /\ replacements' = EmptyMap
                /\ IF r.ok
                   THEN /\ ret' = Some(r.data)
                        /\ loan' = <<"data", r.data>>
                        /\ bytes_out' = TRUE
                        /\ UNCHANGED panicked
                   ELSE /\ ret' = None
                        /\ panicked' = "index out of bounds"
                        /\ UNCHANGED <<loan, bytes_out>>
    /\ UNCHANGED <<d, faithful, stored_by>>

\* A bug: the bytes are built from a copy of the string, which stays in
\* place (as_ref().unwrap().clone() for take().unwrap()).
take_data_clone ==
    /\ panicked = "no"
    /\ op' = "take_data"
    /\ arg' = None
    /\ pre' = string_rep
    /\ fresh' = Age(fresh)
    /\ IF string_rep = None
       THEN /\ ret' = None
            /\ UNCHANGED <<panicked, loan, bytes_out>>
       ELSE \E order \in KeyOrders(replacements) :
            LET r == RestoreAll(Unwrap(string_rep), replacements, order, 1)
            IN  IF r.ok
                THEN /\ ret' = Some(r.data)
                     /\ loan' = <<"data", r.data>>
                     /\ bytes_out' = TRUE
                     /\ UNCHANGED panicked
                ELSE /\ ret' = None
                     /\ panicked' = "index out of bounds"
                     /\ UNCHANGED <<loan, bytes_out>>
    /\ UNCHANGED <<string_rep, replacements, d, faithful, stored_by>>

take_data ==
    /\ panicked = "no"
    /\ op' = "take_data"
    /\ arg' = None
    /\ pre' = string_rep
    /\ fresh' = Age(fresh)
    /\ IF string_rep = None
       THEN /\ ret' = None
            /\ UNCHANGED <<string_rep, panicked, loan, bytes_out>>
       ELSE \E order \in KeyOrders(replacements) :
            LET r == RestoreAll(Unwrap(string_rep), replacements, order, 1)
            IN  /\ string_rep' = None
                /\ IF r.ok
                   THEN /\ ret' = Some(r.data)
                        /\ loan' = <<"data", r.data>>
                        /\ bytes_out' = TRUE
                        /\ UNCHANGED panicked
                   ELSE /\ ret' = None
                        /\ panicked' = "index out of bounds"
                        /\ UNCHANGED <<loan, bytes_out>>
    /\ UNCHANGED <<replacements, d, faithful, stored_by>>

\* A bug: String::from_utf8_unchecked, as in from_vec, for String::from_utf8.
return_data_unchecked_no_validation(data) ==
    /\ panicked = "no"
    /\ op' = "return_data_unchecked"
    /\ arg' = Some(data)
    /\ pre' = string_rep
    /\ fresh' = Age(fresh)
    /\ IF IsSome(string_rep)
       THEN /\ ret' = Some(data)
            /\ UNCHANGED <<string_rep, panicked, loan, faithful, bytes_out,
                           stored_by>>
       ELSE \E order \in KeyOrders(replacements) :
            LET r == MaskAll(data, replacements, order, 1)
            IN  /\ ret' = None
                /\ faithful' = (faithful /\ loan = <<"data", data>>)
                /\ IF ~r.ok
                   THEN /\ panicked' = "index out of bounds"
                        /\ UNCHANGED <<string_rep, loan, bytes_out, stored_by>>
                   ELSE /\ string_rep' = Some(r.data)
                        /\ loan' = NoLoan
                        /\ bytes_out' = FALSE
                        /\ stored_by' = "return_data_unchecked"
                        /\ UNCHANGED panicked
    /\ UNCHANGED <<replacements, d>>

\* A bug: the check of string_rep comes after the loops, so the candidate is
\* re-masked (or the call panics) before it is rejected.
return_data_unchecked_late_guard(data) ==
    /\ panicked = "no"
    /\ op' = "return_data_unchecked"
    /\ arg' = Some(data)
    /\ pre' = string_rep
    /\ fresh' = Age(fresh)
    /\ \E order \in KeyOrders(replacements) :
         LET r == MaskAll(data, replacements, order, 1)
         IN  IF ~r.ok
             THEN /\ ret' = None
                  /\ panicked' = "index out of bounds"
                  /\ UNCHANGED <<string_rep, loan, faithful, bytes_out,
                                 stored_by>>
             ELSE IF IsSome(string_rep)
             THEN /\ ret' = Some(r.data)
                  /\ UNCHANGED <<string_rep, panicked, loan, faithful,
                                 bytes_out, stored_by>>
             ELSE /\ ret' = None
                  /\ faithful' = (faithful /\ loan = <<"data", data>>)
                  /\ IF ~from_utf8_is_ok(r.data)
                     THEN /\ panicked' = "FromUtf8Error"
                          /\ UNCHANGED <<string_rep, loan, bytes_out,
                                         stored_by>>
                     ELSE /\ string_rep' = Some(r.data)
                          /\ loan' = NoLoan
                          /\ bytes_out' = FALSE
                          /\ stored_by' = "return_data_unchecked"
                          /\ UNCHANGED panicked
    /\ UNCHANGED <<replacements, d>>

return_data_unchecked(data) ==
    /\ panicked = "no"
    /\ op' = "return_data_unchecked"
    /\ arg' = Some(data)
    /\ pre' = string_rep
    /\ fresh' = Age(fresh)
    /\ IF IsSome(string_rep)
       THEN /\ ret' = Some(data)
            /\ UNCHANGED <<string_rep, panicked, loan, faithful, bytes_out,
                           stored_by>>
       ELSE \E order \in KeyOrders(replacements) :
            LET r == MaskAll(data, replacements, order, 1)
            IN  /\ ret' = None
                /\ faithful' = (faithful /\ loan = <<"data", data>>)
                /\ IF ~r.ok
                   THEN /\ panicked' = "index out of bounds"
                        /\ UNCHANGED <<string_rep, loan, bytes_out, stored_by>>
                   ELSE IF ~from_utf8_is_ok(r.data)
                   THEN /\ panicked' = "FromUtf8Error"
                        /\ UNCHANGED <<string_rep, loan, bytes_out, stored_by>>
                   ELSE /\ string_rep' = Some(r.data)
                        /\ loan' = NoLoan
                        /\ bytes_out' = FALSE
                        /\ stored_by' = "return_data_unchecked"
                        /\ UNCHANGED panicked
    /\ UNCHANGED <<replacements, d>>

\* A bug: the view is built from a string moved out of self.
as_ref_str_take ==
    /\ panicked = "no"
    /\ op' = "as_ref_str"
    /\ arg' = None
    /\ pre' = string_rep
    /\ fresh' = Age(fresh)
    /\ ret' = IF string_rep = None THEN Some(<<>>) ELSE string_rep
    /\ string_rep' = None
    /\ UNCHANGED <<replacements, d, panicked, loan, faithful, bytes_out,
                   stored_by>>

\* AsRef<str>: the result, which is no Option, is recorded as Some(view).
as_ref_str ==
    /\ panicked = "no"
    /\ op' = "as_ref_str"
    /\ arg' = None
    /\ pre' = string_rep
    /\ fresh' = Age(fresh)
    /\ ret' = IF string_rep = None THEN Some(<<>>) ELSE string_rep
    /\ UNCHANGED <<string_rep, replacements, d, panicked, loan, faithful,
                   bytes_out, stored_by>>

\* AsRef<[u8]>: the bytes of the string are its UTF-8 encoding, which is
\* how a string is kept here.
as_ref_bytes ==
    /\ panicked = "no"
    /\ op' = "as_ref_bytes"
    /\ arg' = None
    /\ pre' = string_rep
    /\ fresh' = Age(fresh)
    /\ ret' = IF string_rep = None THEN Some(<<>>) ELSE string_rep
    /\ UNCHANGED <<string_rep, replacements, d, panicked, loan, faithful,
                   bytes_out, stored_by>>

\* Display::fmt: what is written to the formatter is recorded as
\* Some(output).
fmt ==
    /\ panicked = "no"
    /\ op' = "fmt"
    /\ arg' = None
    /\ pre' = string_rep
    /\ fresh' = Age(fresh)
    /\ ret' = Some(Rendered(string_rep))
    /\ UNCHANGED <<string_rep, replacements, d, panicked, loan, faithful,
                   bytes_out, stored_by>>

Next ==
    \/ take_string
    \/ \E s \in Strings : return_string(s)
    \/ take_data
    \/ \E data \in ByteSeqs : return_data_unchecked(data)
    \/ as_ref_str
    \/ as_ref_bytes
    \/ fmt

Spec == Init /\ [][Next]_vars

-----------------------------------------------------------------------------
(* Vocabulary of the properties.                                           *)

Takes == {"take_string", "take_data"}

\* The 0-based positions recorded in a table.
Positions(repl) == {repl[k][j] : <<k, j>> \in
                      UNION {{k} \X DOMAIN repl[k] : k \in DOMAIN repl}}

\* Every recorded position is an index of text and holds SUBSTITUTE there.
SentinelAt(text, repl) ==
    \A p \in Positions(repl) : p < Len(text) /\ text[p + 1] = SUBSTITUTE

\* data with SUBSTITUTE at the recorded positions, unchanged elsewhere.
Remasked(data, repl) ==
    [i \in 1..Len(data) |->
        IF (i - 1) \in Positions(repl) THEN SUBSTITUTE ELSE data[i]]

HasHighByte(data) == \E i \in DOMAIN data : data[i] > ASCII_MAX

\* Some position the table does not record holds a byte above 127.
HighOutsideTable(data, repl) ==
    \E i \in DOMAIN data : (i - 1) \notin Positions(repl) /\ data[i] > ASCII_MAX

-----------------------------------------------------------------------------
\* C1: take_data called right after from_vec(d) returns Some(d), for every
\* d: of any length, with any bytes, a literal SUBSTITUTE included.
C1_RoundTrip ==
    (fresh = "first" /\ op = "take_data") =>
        (ret = Some(d) /\ panicked = "no")

\* The round trip of a vector holding both a byte above 127 and a literal
\* SUBSTITUTE.
C1_Witness ==
    /\ fresh = "first"
    /\ op = "take_data"
    /\ ret = Some(d)
    /\ HasHighByte(d)
    /\ \E i \in DOMAIN d : d[i] = SUBSTITUTE

\* C2: as long as every return made on the empty value gives back exactly
\* what the last take handed out, through the matching call, no call
\* panics, every such return is accepted (returns None and the value holds
\* a string again), and every take_data that finds a string returns
\* Some(d).
C2_LoanAndReturn ==
    faithful =>
        /\ panicked = "no"
        /\ (op \in {"return_string", "return_data_unchecked"} /\ pre = None) =>
              (ret = None /\ IsSome(string_rep))
        /\ (op = "take_data" /\ IsSome(pre)) => ret = Some(d)

\* A take_data returning d after a cycle of take_data and
\* return_data_unchecked of the same bytes, d holding bytes above 127.
C2_Witness ==
    /\ faithful
    /\ stored_by = "return_data_unchecked"
    /\ op = "take_data"
    /\ ret = Some(d)
    /\ HasHighByte(d)

\* C3: once a take has succeeded and no return has been accepted since, the
\* value stays empty, and every take_string and take_data returns None.
C3_IdempotentEmptiness ==
    /\ loan # NoLoan => string_rep = None
    /\ (op \in Takes /\ pre = None) =>
          (ret = None /\ string_rep = None /\ panicked = "no")

\* A take_data returning None after a take_string that succeeded.
C3_Witness ==
    /\ op = "take_data"
    /\ pre = None
    /\ ret = None
    /\ loan # NoLoan
    /\ loan[1] = "string"

\* C4: return_string(x) on a value that holds a string returns Some(x), and
\* the held string and the table are what they were.
C4_ReturnStringRejected ==
    (op = "return_string" /\ IsSome(pre)) =>
        /\ ret = arg
        /\ string_rep = pre
        /\ replacements = from_vec(d).replacements
        /\ panicked = "no"

\* A rejected return_string of a string other than the held one.
C4_Witness ==
    /\ op = "return_string"
    /\ IsSome(pre)
    /\ ret = arg
    /\ string_rep = pre
    /\ arg # pre

\* C5: return_data_unchecked on a value that holds a string returns
\* Some(candidate) unchanged without panicking, whatever the candidate, and
\* the held string and the table are what they were.
C5_ReturnDataRejected ==
    (op = "return_data_unchecked" /\ IsSome(pre)) =>
        /\ ret = arg
        /\ string_rep = pre
        /\ replacements = from_vec(d).replacements
        /\ panicked = "no"

\* A rejected candidate that is shorter than a recorded position and holds
\* a byte above 127.
C5_Witness ==
    /\ op = "return_data_unchecked"
    /\ IsSome(pre)
    /\ ret = arg
    /\ \E p \in Positions(replacements) : p >= Len(Unwrap(arg))
    /\ HasHighByte(Unwrap(arg))

C7_SentinelInvariant ==
    IsSome(string_rep) => SentinelAt(Unwrap(string_rep), replacements)

\* C7, amended: whenever the held string is the one from_vec built or one
\* that return_data_unchecked stored, every recorded position is an index
\* of it and holds SUBSTITUTE; return_string stores its argument as it is.
C7_SentinelUnlessStringReturned ==
    (IsSome(string_rep) /\ stored_by \in {"from_vec", "return_data_unchecked"})
        => SentinelAt(Unwrap(string_rep), replacements)

\* A string stored by return_data_unchecked from a candidate that held
\* something else than SUBSTITUTE at a recorded position.
C7_Witness ==
    /\ op = "return_data_unchecked"
    /\ pre = None
    /\ IsSome(string_rep)
    /\ stored_by = "return_data_unchecked"
    /\ \E p \in Positions(replacements) : Unwrap(arg)[p + 1] # SUBSTITUTE

\* C8 as stated: on an empty value, a candidate of the length of d with a
\* byte above 127 at a position the table does not record makes
\* return_data_unchecked panic.
C8_FatalCorruption ==
    (/\ op = "return_data_unchecked"
     /\ pre = None
     /\ Len(Unwrap(arg)) = Len(d)
     /\ HighOutsideTable(Unwrap(arg), replacements))
        => (panicked # "no" /\ string_rep = None)

\* C8, amended: on an empty value, a candidate of the length of d that is
\* not well-formed UTF-8 once the recorded positions hold SUBSTITUTE makes
\* return_data_unchecked panic in from_utf8(..).unwrap(), and nothing is
\* stored; a candidate whose bytes above 127 outside the table form
\* well-formed UTF-8 sequences is accepted.
C8_FatalWhenNotUtf8 ==
    (/\ op = "return_data_unchecked"
     /\ pre = None
     /\ Len(Unwrap(arg)) = Len(d))
        => IF from_utf8_is_ok(Remasked(Unwrap(arg), replacements))
           THEN panicked = "no" /\ IsSome(string_rep)
           ELSE panicked = "FromUtf8Error" /\ string_rep = None /\ ret = None

\* The panic on a candidate of the length of d with a byte above 127 at a
\* position the table does not record, the table not being empty.
C8_Witness ==
    /\ op = "return_data_unchecked"
    /\ pre = None
    /\ Len(Unwrap(arg)) = Len(d)
    /\ HighOutsideTable(Unwrap(arg), replacements)
    /\ Positions(replacements) # {}
    /\ panicked = "FromUtf8Error"

\* C9: on an empty value built from d, a candidate of the length of d whose
\* positions outside the table all hold bytes up to 127 is accepted: the
\* call returns None and the stored string has SUBSTITUTE at the recorded
\* positions and the candidate's byte at every other position.
C9_Remasking ==
    (/\ op = "return_data_unchecked"
     /\ pre = None
     /\ Len(Unwrap(arg)) = Len(d)
     /\ ~HighOutsideTable(Unwrap(arg), replacements))
        => /\ ret = None
           /\ panicked = "no"
           /\ string_rep = Some(Remasked(Unwrap(arg), replacements))

\* An accepted candidate that held, at recorded positions, a byte above 127
\* other than the original one and an ASCII byte other than SUBSTITUTE.
C9_Witness ==
    /\ op = "return_data_unchecked"
    /\ pre = None
    /\ ret = None
    /\ IsSome(string_rep)
    /\ Len(Unwrap(arg)) = Len(d)
    /\ \E p \in Positions(replacements) :
          Unwrap(arg)[p + 1] > ASCII_MAX /\ Unwrap(arg)[p + 1] # d[p + 1]
    /\ \E p \in Positions(replacements) : Unwrap(arg)[p + 1] = ASCII_MAX

\* C10 as stated: on an empty value, return_data_unchecked fails only in
\* the interpretation of the re-masked buffer as text, whatever the
\* candidate.
C10_OnlyUtf8CanFail ==
    (op = "return_data_unchecked" /\ pre = None)
        => panicked \in {"no", "FromUtf8Error"}

\* C10, amended: on an empty value, the re-masking completes exactly when
\* every recorded position is an index of the candidate; for a shorter
\* candidate the indexed store panics, before any interpretation as text,
\* and nothing is stored.
C10_RemaskFailsOnShortCandidate ==
    (op = "return_data_unchecked" /\ pre = None)
        => IF \E p \in Positions(replacements) : p >= Len(Unwrap(arg))
           THEN panicked = "index out of bounds" /\ string_rep = None
           ELSE panicked \in {"no", "FromUtf8Error"}

\* The panic of the indexed store on a candidate shorter than d.
C10_Witness ==
    /\ op = "return_data_unchecked"
    /\ pre = None
    /\ Len(Unwrap(arg)) < Len(d)
    /\ panicked = "index out of bounds"

\* C11: right after from_vec(d), every index i with d[i] > 127 is recorded
\* exactly once in the list keyed by d[i] and in no other list, each list
\* is in strictly ascending order, and no index i with d[i] <= 127 (a
\* literal SUBSTITUTE included) is in any list.
C11_TableCorrect ==
    fresh = "new" =>
        /\ \A i \in DOMAIN d : d[i] > ASCII_MAX =>
              /\ d[i] \in DOMAIN replacements
              /\ Cardinality({j \in DOMAIN replacements[d[i]] :
                                replacements[d[i]][j] = i - 1}) = 1
              /\ \A k \in DOMAIN replacements \ {d[i]} :
                    \A j \in DOMAIN replacements[k] :
                        replacements[k][j] # i - 1
        /\ \A k \in DOMAIN replacements :
              \A j1, j2 \in DOMAIN replacements[k] :
                  j1 < j2 => replacements[k][j1] < replacements[k][j2]
        /\ \A i \in DOMAIN d : d[i] <= ASCII_MAX =>
              (i - 1) \notin Positions(replacements)

\* The table of a vector in which one value above 127 occurs twice.
C11_Witness ==
    /\ fresh = "new"
    /\ \E k \in DOMAIN replacements : Len(replacements[k]) >= 2

\* C12: the string held right after from_vec(d) has the length of d, holds
\* only bytes 0..127, holds SUBSTITUTE at every index i with d[i] > 127 and
\* d[i] at every other index.
C12_ConstructionPostcondition ==
    fresh = "new" =>
        /\ IsSome(string_rep)
        /\ Len(Unwrap(string_rep)) = Len(d)
        /\ \A i \in DOMAIN Unwrap(string_rep) :
              /\ Between(Unwrap(string_rep)[i], 0, ASCII_MAX)
              /\ Unwrap(string_rep)[i] =
                    IF d[i] > ASCII_MAX THEN SUBSTITUTE ELSE d[i]

\* The string built from a vector with a byte above 127 and an ASCII byte
\* other than SUBSTITUTE.
C12_Witness ==
    /\ fresh = "new"
    /\ IsSome(string_rep)
    /\ HasHighByte(d)
    /\ \E i \in DOMAIN d : d[i] = ASCII_MAX

\* The bytes of text with every SUBSTITUTE byte replaced by the three bytes
\* of U+FFFD, from element i on.
RECURSIVE SubstituteShown(_, _)
SubstituteShown(text, i) ==
    IF i > Len(text) THEN <<>>
    ELSE (IF text[i] = SUBSTITUTE THEN <<239, 191, 189>> ELSE <<text[i]>>)
         \o SubstituteShown(text, i + 1)

\* C13: Display writes the held string with every SUBSTITUTE character
\* replaced by U+FFFD and every other character as it is, in order; for an
\* empty value it writes nothing; the held string and the table are left
\* as they were.
C13_Display ==
    op = "fmt" =>
        /\ ret = Some(IF pre = None THEN <<>>
                      ELSE SubstituteShown(Unwrap(pre), 1))
        /\ string_rep = pre
        /\ replacements = from_vec(d).replacements
        /\ panicked = "no"

\* The rendering of a held string with a SUBSTITUTE and another character.
C13_Witness ==
    /\ op = "fmt"
    /\ IsSome(pre)
    /\ \E i \in DOMAIN Unwrap(pre) : Unwrap(pre)[i] = SUBSTITUTE
    /\ \E i \in DOMAIN Unwrap(pre) : Unwrap(pre)[i] # SUBSTITUTE
    /\ Len(Unwrap(ret)) = Len(Unwrap(pre)) + 2

\* C14: the string view and the byte view give the held string (its bytes)
\* when one is held and the empty string (the empty slice) when none is,
\* and leave the held string, whether one is held, and the table as they
\* were.
C14_ReadOnlyViews ==
    op \in {"as_ref_str", "as_ref_bytes"} =>
        /\ ret = (IF IsSome(pre) THEN pre ELSE Some(<<>>))
        /\ string_rep = pre
        /\ replacements = from_vec(d).replacements
        /\ panicked = "no"

\* The byte view of a held string that is not empty.
C14_Witness ==
    /\ op = "as_ref_bytes"
    /\ IsSome(pre)
    /\ Unwrap(pre) # <<>>
    /\ ret = pre
    /\ string_rep = pre

\* C15: the table is the one from_vec built from d, whatever calls have
\* been made since, accepted, rejected or panicking.
C15_TableFixed == replacements = from_vec(d).replacements

\* An accepted return_data_unchecked, so after a take as well, on a value
\* whose table is not empty.
C15_Witness ==
    /\ op = "return_data_unchecked"
    /\ pre = None
    /\ IsSome(string_rep)
    /\ DOMAIN replacements # {}
    /\ replacements = from_vec(d).replacements

Returns == {"return_string", "return_data_unchecked"}

\* C16 as stated: the value holds a string exactly after from_vec or an
\* accepted return and is empty exactly after a successful take; a take
\* succeeds iff the value holds a string, a return is accepted iff the
\* value is empty, and an accepted return never overwrites a held string.
C16_Alternation ==
    /\ IsSome(string_rep) <=> loan = NoLoan
    /\ op \in Takes =>
          /\ IsSome(ret) <=> IsSome(pre)
          /\ string_rep = None
    /\ op \in Returns =>
          /\ (ret = None /\ IsSome(string_rep)) <=> pre = None
          /\ IsSome(pre) => string_rep = pre

\* C16, amended: as stated for every call that returns, with the two calls
\* that can panic set apart.  take_string succeeds iff the value holds a
\* string; take_data returns None on an empty value and, on a value that
\* holds a string, either succeeds or panics; return_string is accepted
\* iff the value is empty; return_data_unchecked is rejected on a value
\* that holds a string and, on an empty one, is either accepted or panics.
\* A panic leaves the value empty.  Unless a call panicked, the value holds
\* a string exactly when nothing taken is out, so successful takes and
\* accepted returns alternate, a take first; a held string is never
\* overwritten.
C16_AlternationOrPanic ==
    /\ panicked = "no" => (IsSome(string_rep) <=> loan = NoLoan)
    /\ panicked # "no" =>
          /\ string_rep = None
          /\ ret = None
          /\ \/ op = "take_data" /\ IsSome(pre)
             \/ op = "return_data_unchecked" /\ pre = None
    /\ (op \in Takes /\ panicked = "no") =>
          /\ IsSome(ret) <=> IsSome(pre)
          /\ string_rep = None
    /\ (op \in Returns /\ panicked = "no") =>
          /\ (ret = None /\ IsSome(string_rep)) <=> pre = None
          /\ IsSome(pre) => (string_rep = pre /\ ret = arg)

\* A take that succeeds on a string that an accepted return stored.
C16_Witness ==
    /\ op \in Takes
    /\ IsSome(ret)
    /\ string_rep = None
    /\ stored_by \in Returns

\* C17: on an empty value built from d, return_string(s) is accepted as it
\* is; for s of the length of d, a take_data of the stored s returns the
\* bytes of s with d[i] at every recorded position and the byte of s at
\* every other position.
C17_EditedText ==
    /\ (op = "return_string" /\ pre = None) =>
          (ret = None /\ string_rep = arg /\ panicked = "no")
    /\ (/\ op = "take_data"
        /\ IsSome(pre)
        /\ stored_by = "return_string"
        /\ Len(Unwrap(pre)) = Len(d))
          => /\ panicked = "no"
             /\ ret = Some([i \in 1..Len(d) |->
                             IF (i - 1) \in Positions(replacements)
                             THEN d[i] ELSE Unwrap(pre)[i]])

\* take_data of a returned text of the length of d that held an ASCII byte
\* other than SUBSTITUTE at a recorded position and differed from d at
\* another position.
C17_Witness ==
    /\ op = "take_data"
    /\ IsSome(pre)
    /\ IsSome(ret)
    /\ stored_by = "return_string"
    /\ Len(Unwrap(pre)) = Len(d)
    /\ \E p \in Positions(replacements) : Unwrap(pre)[p + 1] = ASCII_MAX
    /\ \E i \in DOMAIN d :
          (i - 1) \notin Positions(replacements) /\ Unwrap(pre)[i] # d[i]

\* C18: take_data on a value that holds a string, whatever calls came
\* before, does not panic and returns as many bytes as the held string has.
C18_TakeDataTotal ==
    (op = "take_data" /\ IsSome(pre)) =>
        /\ panicked = "no"
        /\ IsSome(ret)
        /\ Len(Unwrap(ret)) = Len(Unwrap(pre))

\* C19: the position lists of different keys are disjoint, and what
\* take_data returns (or that it panics) and what return_data_unchecked
\* stores (or that it panics) is what every order of visiting the table
\* gives.
C19_OrderIndependent ==
    /\ \A k1, k2 \in DOMAIN replacements : k1 # k2 =>
          \A j1 \in DOMAIN replacements[k1], j2 \in DOMAIN replacements[k2] :
              replacements[k1][j1] # replacements[k2][j2]
    /\ (op = "take_data" /\ IsSome(pre)) =>
          \A o \in KeyOrders(replacements) :
              RestoreAll(Unwrap(pre), replacements, o, 1) =
                  IF panicked = "no" THEN Ok(Unwrap(ret)) ELSE IndexPanic
    /\ (op = "return_data_unchecked" /\ pre = None) =>
          \A o \in KeyOrders(replacements) :
              LET r == MaskAll(Unwrap(arg), replacements, o, 1)
              IN  IF panicked = "index out of bounds" THEN ~r.ok
                  ELSE /\ r.ok
                       /\ panicked = "no" => string_rep = Some(r.data)

\* take_data has restored the bytes of a table with two keys.
C19_Witness ==
    /\ op = "take_data"
    /\ IsSome(ret)
    /\ Cardinality(DOMAIN replacements) >= 2

====
